---------------------------- MODULE Spec2Model ----------------------------
(***************************************************************************)
(* A model of the lando.blog page runtime: the ScrollTop widget            *)
(* (src/components/ScrollTop/ScrollTopComp.jsx), the head of the post page *)
(* that embeds it (src/unnamed/part_000) and the footer of the site        *)
(* configuration (src/theme.config.js).                                    *)
(*                                                                         *)
(* The window, its scroll offset, its listener list and its clock are the  *)
(* environment; a page view is one mount of the post page, which renders   *)
(* its <Head> and one ScrollTop instance.                                  *)
(***************************************************************************)
EXTENDS Integers, Sequences, FiniteSets, TLC

\* ------------------------------------------------------------------ bounds
MaxInst       == 2    \* page views (ScrollTop instances) in one window lifetime
MaxOffset     == 302  \* the largest scroll offset the user reaches
MaxInputs     == 4    \* user scrolls, clicks and parent re-renders, in all
MaxClock      == 14   \* months the clock runs past the epoch

\* --------------------------------------------------------- program constants
Threshold     == 300  \* ScrollTopComp.jsx:12,14
EpochYear     == 1970 \* `new Date()` counts from 1 January 1970
MonthsPerYear == 12

Inst    == 1..MaxInst
Offsets == {0, Threshold - 1, Threshold, Threshold + 1, MaxOffset}
NoEvent == 0 - 1      \* no scroll event delivered to the instance yet
Unset   == 0 - 1      \* theme.config.js not evaluated / footer not rendered

VARIABLES
    status,        \* [Inst -> {"unborn", "mounted", "unmounted"}]
    visible,       \* [Inst -> BOOLEAN]: the useState flag of each instance
    display,       \* [Inst -> style.display of the rendered <div>]
    head,          \* [Inst -> the head elements the page view rendered]
    listeners,     \* the window's 'scroll' listener list, in registration order
    scrollTop,     \* document.documentElement.scrollTop
    scrollPending, \* a 'scroll' event is queued for dispatch
    animating,     \* a smooth scroll started by window.scrollTo is running
    requests,      \* the window.scrollTo calls made so far
    clicks,        \* clicks delivered to the widget's onClick
    seen,          \* [Inst -> offset read by the last event delivered to it]
    rerenders,     \* parent-caused re-renders so far
    inputs,        \* user scrolls, clicks and parent re-renders so far
    clock,         \* system clock, in months since January of EpochYear
    YEAR,          \* theme.config.js: const YEAR
    footerShown,   \* the year in the rendered footer's <time>
    footerClock    \* the clock when the footer was last rendered

widgetVars == << status, visible, display, head, listeners, scrollTop,
                 scrollPending, animating, requests, clicks, seen,
                 rerenders, inputs >>
footerVars == << clock, YEAR, footerShown, footerClock >>
vars == << status, visible, display, head, listeners, scrollTop,
           scrollPending, animating, requests, clicks, seen,
           rerenders, inputs, clock, YEAR, footerShown, footerClock >>

\* ------------------------------------------------- the post page's strings
\* Strings are sequences of characters, spelled as the source spells them.
\* front-matter `title:` (the first character is the pushpin emoji,
\* one code point, written "U+1F4CD")
FrontMatterTitle ==
    << "U+1F4CD", " ", "M", "a", "p", "s", " ", "i", "n", " ", "J", "a",
       "v", "a", "s", "c", "r", "i", "p", "t", ":", " ", "C", "o", "n", "v",
       "e", "r", "t", "i", "n", "g", " ", "A", "r", "r", "a", "y", "s", " ",
       "o", "f", " ", "O", "b", "j", "e", "c", "t", "s" >>

\* front-matter `date:`
FrontMatterDate ==
    << "2", "0", "2", "2", "-", "0", "6", "-", "2", "6" >>

\* front-matter `description:`
FrontMatterDescription ==
    << "U", "s", "i", "n", "g", " ", "M", "a", "p", "s", " ", "i", "n", " ",
       "J", "a", "v", "a", "s", "c", "r", "i", "p", "t", " ", "t", "o", " ",
       "m", "a", "k", "e", " ", "o", "b", "j", "e", "c", "t", " ", "d", "a",
       "t", "a", " ", "l", "o", "o", "k", "u", "p", " ", "m", "o", "r", "e",
       " ", "e", "f", "f", "i", "c", "i", "e", "n", "t" >>

\* front-matter `tag:`
FrontMatterTag ==
    << "w", "e", "b", " ", "d", "e", "v", "e", "l", "o", "p", "m", "e", "n",
       "t", ",", " ", "j", "a", "v", "a", "s", "c", "r", "i", "p", "t", ",",
       " ", "m", "a", "p", ",", " ", "a", "r", "r", "a", "y", ",", " ", "o",
       "b", "j", "e", "c", "t" >>

\* front-matter `author:`
FrontMatterAuthor ==
    << "l", "a", "n", "d", "o" >>

\* <meta name="title" content=...>
MetaTitleContent ==
    << "M", "a", "p", "s", " ", "i", "n", " ", "J", "a", "v", "a", "s", "c",
       "r", "i", "p", "t", ":", " ", "C", "o", "n", "v", "e", "r", "t", "i",
       "n", "g", " ", "A", "r", "r", "a", "y", "s", " ", "o", "f", " ", "O",
       "b", "j", "e", "c", "t", "s" >>

\* <meta name="description" content=...>
MetaDescriptionContent ==
    << "U", "s", "i", "n", "g", " ", "M", "a", "p", "s", " ", "i", "n", " ",
       "J", "a", "v", "a", "s", "c", "r", "i", "p", "t", " ", "t", "o", " ",
       "m", "a", "k", "e", " ", "o", "b", "j", "e", "c", "t", " ", "d", "a",
       "t", "a", " ", "l", "o", "o", "k", "u", "p", " ", "m", "o", "r", "e",
       " ", "e", "f", "f", "i", "c", "i", "e", "n", "t" >>

\* <meta name="keywords" content=...>
MetaKeywordsContent ==
    << "w", "e", "b", " ", "d", "e", "v", "e", "l", "o", "p", "m", "e", "n",
       "t", ",", " ", "j", "a", "v", "a", "s", "c", "r", "i", "p", "t", ",",
       " ", "m", "a", "p", ",", " ", "a", "r", "r", "a", "y", ",", " ", "o",
       "b", "j", "e", "c", "t" >>

\* <meta property="og:description" content=...>
OgDescriptionContent ==
    << "U", "s", "i", "n", "g", " ", "M", "a", "p", "s", " ", "i", "n", " ",
       "J", "a", "v", "a", "s", "c", "r", "i", "p", "t", " ", "t", "o", " ",
       "m", "a", "k", "e", " ", "o", "b", "j", "e", "c", "t", " ", "d", "a",
       "t", "a", " ", "l", "o", "o", "k", "u", "p", " ", "m", "o", "r", "e",
       " ", "e", "f", "f", "i", "c", "i", "e", "n", "t" >>

\* <meta property="og:title" content=...>
OgTitleContent ==
    << "M", "a", "p", "s", " ", "i", "n", " ", "J", "a", "v", "a", "s", "c",
       "r", "i", "p", "t", ":", " ", "C", "o", "n", "v", "e", "r", "t", "i",
       "n", "g", " ", "A", "r", "r", "a", "y", "s", " ", "o", "f", " ", "O",
       "b", "j", "e", "c", "t", "s" >>

\* <link rel="canonical" href=...>
CanonicalHref ==
    << "h", "t", "t", "p", "s", ":", "/", "/", "w", "w", "w", ".", "l", "a",
       "n", "d", "o", ".", "b", "l", "o", "g", "/", "p", "o", "s", "t", "s",
       "/", "j", "a", "v", "a", "s", "c", "r", "i", "p", "t", "-", "c", "o",
       "n", "v", "e", "r", "t", "-", "a", "r", "r", "a", "y", "-", "o", "f",
       "-", "o", "b", "j", "e", "c", "t", "s", "-", "t", "o", "-", "m", "a",
       "p" >>

\* <title>...</title>
TitleElement ==
    << "M", "a", "p", "s", " ", "i", "n", " ", "J", "a", "v", "a", "s", "c",
       "r", "i", "p", "t", ":", " ", "C", "o", "n", "v", "e", "r", "t", "i",
       "n", "g", " ", "A", "r", "r", "a", "y", "s", " ", "o", "f", " ", "O",
       "b", "j", "e", "c", "t", "s", " ", "-", " ", "l", "a", "n", "d", "o",
       ".", "b", "l", "o", "g" >>

\* ------------------------------------------------------------ the post page
\* The front-matter block of the post.
FrontMatter ==
    [ title       |-> FrontMatterTitle,
      date        |-> FrontMatterDate,
      description |-> FrontMatterDescription,
      tag         |-> FrontMatterTag,
      author      |-> FrontMatterAuthor ]

\* Variant: the description and keywords metas are cut short.
PageHeadTruncated ==
    [ metaTitle       |-> MetaTitleContent,
      metaDescription |-> SubSeq(MetaDescriptionContent, 1, 10),
      metaKeywords    |-> SubSeq(MetaKeywordsContent, 1, 10),
      ogDescription   |-> OgDescriptionContent,
      ogTitle         |-> OgTitleContent,
      canonical       |-> CanonicalHref,
      title           |-> TitleElement ]

\* The children of the page's <Head>.
PageHead ==
    [ metaTitle       |-> MetaTitleContent,
      metaDescription |-> MetaDescriptionContent,
      metaKeywords    |-> MetaKeywordsContent,
      ogDescription   |-> OgDescriptionContent,
      ogTitle         |-> OgTitleContent,
      canonical       |-> CanonicalHref,
      title           |-> TitleElement ]

NoHead == << >>

\* ------------------------------------------------------- the ScrollTop widget
\* Variant: the flag starts true.
useStateInitTrue == TRUE

\* useState(false): the flag's value at mount.
useStateInit == FALSE

\* Variant: the comparison is >= instead of >.
toggleVisibleAtLeast(vis, scrolled) ==
    IF scrolled >= Threshold THEN TRUE ELSE FALSE

\* Variant: above the threshold the handler flips the flag it finds.
toggleVisibleFlip(vis, scrolled) ==
    IF scrolled > Threshold THEN ~vis ELSE FALSE

\* toggleVisible: the value the flag has after the handler ran with
\* document.documentElement.scrollTop = scrolled.
toggleVisible(vis, scrolled) ==
    IF scrolled > Threshold THEN TRUE
    ELSE IF scrolled <= Threshold THEN FALSE
    ELSE vis

\* Variant: the request is not smooth.
scrollToTopInstant(reqs) ==
    Append(reqs, [top |-> 0, behavior |-> "auto"])

\* Variant: the request targets the threshold instead of 0.
scrollToTopThreshold(reqs) ==
    Append(reqs, [top |-> Threshold, behavior |-> "smooth"])

\* scrollToTop: window.scrollTo({ top: 0, behavior: 'smooth' }).
scrollToTop(reqs) ==
    Append(reqs, [top |-> 0, behavior |-> "smooth"])

\* style={{ display: visible ? 'inline' : 'none' }}
DisplayStyle(vis) == IF vis THEN "inline" ELSE "none"

\* The closures one instance has registered so far: one per render.
RenderCount(i, ls) == Cardinality({k \in 1..Len(ls) : ls[k].owner = i})

\* Variant: registering drops the owner's earlier listeners.
addEventListenerReplace(ls, fn) ==
    Append(SelectSeq(ls, LAMBDA l : l.owner # fn.owner), fn)

\* window.addEventListener('scroll', fn): appends fn unless that very
\* function is registered already.
addEventListener(ls, fn) ==
    IF \E k \in 1..Len(ls) : ls[k] = fn THEN ls ELSE Append(ls, fn)

\* One run of the component function for instance i: a fresh toggleVisible
\* closure is created and registered.
Render(i, ls) ==
    addEventListener(ls, [owner |-> i, render |-> RenderCount(i, ls) + 1])

\* The component function run for every instance of S, in tree order.
RECURSIVE RenderAll(_, _)
RenderAll(S, ls) ==
    IF S = {} THEN ls
    ELSE LET i == CHOOSE x \in S : \A y \in S : x <= y
         IN  RenderAll(S \ {i}, Render(i, ls))

\* The dispatch of one 'scroll' event: every registered listener runs, in
\* registration order, and calls its owner's setVisible; setVisible on an
\* unmounted instance does nothing.
RECURSIVE RunListeners(_, _)
RunListeners(ls, vis) ==
    IF ls = << >> THEN vis
    ELSE LET l == Head(ls)
         IN  RunListeners(Tail(ls),
                 IF status[l.owner] = "mounted"
                 THEN [vis EXCEPT ![l.owner] = toggleVisible(@, scrollTop)]
                 ELSE vis)

\* The target of the running smooth scroll: the last window.scrollTo call.
ScrollTarget == requests[Len(requests)].top

\* -------------------------------------------------------- the site footer
\* Date.prototype.getFullYear, on a clock counted in months.
getFullYear(t) == EpochYear + (t \div MonthsPerYear)

Init ==
    /\ status = [i \in Inst |-> "unborn"]
    /\ visible = [i \in Inst |-> FALSE]
    /\ display = [i \in Inst |-> "unrendered"]
    /\ head = [i \in Inst |-> NoHead]
    /\ listeners = << >>
    /\ scrollTop = 0
    /\ scrollPending = FALSE
    /\ animating = FALSE
    /\ requests = << >>
    /\ clicks = 0
    /\ seen = [i \in Inst |-> NoEvent]
    /\ rerenders = 0
    /\ inputs = 0
    /\ clock = 0
    /\ YEAR = Unset
    /\ footerShown = Unset
    /\ footerClock = Unset

\* A page view starts: the page renders its <Head> and mounts <ScrollTop />.
\* The router shows one page at a time, and the page holds one <ScrollTop />
\* (part_000:192), so the previous page view has ended.
MountPage(i) ==
    /\ status[i] = "unborn"
    /\ \A j \in Inst : j < i => status[j] = "unmounted"
    /\ status' = [status EXCEPT ![i] = "mounted"]
    /\ visible' = [visible EXCEPT ![i] = useStateInit]
    /\ display' = [display EXCEPT ![i] = DisplayStyle(visible'[i])]
    /\ head' = [head EXCEPT ![i] = PageHead]
    /\ listeners' = Render(i, listeners)
    /\ UNCHANGED << scrollTop, scrollPending, animating, requests, clicks,
                    seen, rerenders, inputs >>
    /\ UNCHANGED footerVars

\* The page view ends (client-side navigation): the instance's state is
\* discarded and its head elements are removed.  The component has no effect
\* cleanup, so nothing is taken off the window.
UnmountPage(i) ==
    /\ status[i] = "mounted"
    /\ status' = [status EXCEPT ![i] = "unmounted"]
    /\ visible' = [visible EXCEPT ![i] = FALSE]
    /\ display' = [display EXCEPT ![i] = "unrendered"]
    /\ head' = [head EXCEPT ![i] = NoHead]
    /\ seen' = [seen EXCEPT ![i] = NoEvent]
    /\ UNCHANGED << listeners, scrollTop, scrollPending, animating, requests,
                    clicks, rerenders, inputs >>
    /\ UNCHANGED footerVars

\* The parent re-renders: the component function runs again.
Rerender(i) ==
    /\ status[i] = "mounted"
    /\ inputs < MaxInputs
    /\ inputs' = inputs + 1
    /\ rerenders' = rerenders + 1
    /\ listeners' = Render(i, listeners)
    /\ display' = [display EXCEPT ![i] = DisplayStyle(visible[i])]
    /\ UNCHANGED << status, visible, head, scrollTop, scrollPending,
                    animating, requests, clicks, seen >>
    /\ UNCHANGED footerVars

\* The user scrolls the page to offset y; the browser queues a 'scroll'
\* event.  Whether the input stops a running smooth scroll is the browser's
\* choice.
UserScroll(y) ==
    /\ inputs < MaxInputs
    /\ y # scrollTop
    /\ inputs' = inputs + 1
    /\ scrollTop' = y
    /\ scrollPending' = TRUE
    /\ \E keep \in BOOLEAN : animating' = (animating /\ keep)
    /\ UNCHANGED << status, visible, display, head, listeners, requests,
                    clicks, seen, rerenders >>
    /\ UNCHANGED footerVars

\* The browser dispatches the queued 'scroll' event: the listeners run, then
\* every instance whose flag changed renders again.
DispatchScroll ==
    /\ scrollPending
    /\ scrollPending' = FALSE
    /\ visible' = RunListeners(listeners, visible)
    /\ LET changed == {i \in Inst : visible'[i] # visible[i]}
       IN  /\ listeners' = RenderAll(changed, listeners)
           /\ display' = [i \in Inst |->
                             IF i \in changed THEN DisplayStyle(visible'[i])
                             ELSE display[i]]
    /\ seen' = [i \in Inst |->
                   IF /\ status[i] = "mounted"
                      /\ \E k \in 1..Len(listeners) : listeners[k].owner = i
                   THEN scrollTop ELSE seen[i]]
    /\ UNCHANGED << status, head, scrollTop, animating, requests, clicks,
                    rerenders, inputs >>
    /\ UNCHANGED footerVars

\* Variant: the click handler also hides the widget.
ClickHides(i) ==
    /\ status[i] = "mounted"
    /\ display[i] = "inline"
    /\ inputs < MaxInputs
    /\ inputs' = inputs + 1
    /\ clicks' = clicks + 1
    /\ requests' = scrollToTop(requests)
    /\ animating' = (scrollTop # requests'[Len(requests')].top)
    /\ visible' = [visible EXCEPT ![i] = FALSE]
    /\ display' = [display EXCEPT ![i] = "none"]
    /\ listeners' = Render(i, listeners)
    /\ UNCHANGED << status, head, scrollTop, scrollPending, seen,
                    rerenders >>
    /\ UNCHANGED footerVars

\* The user clicks the rendered widget: onClick={scrollToTop}.
Click(i) ==
    /\ status[i] = "mounted"
    /\ display[i] = "inline"
    /\ inputs < MaxInputs
    /\ inputs' = inputs + 1
    /\ clicks' = clicks + 1
    /\ requests' = scrollToTop(requests)
    /\ animating' = (scrollTop # requests'[Len(requests')].top)
    /\ UNCHANGED << status, visible, display, head, listeners, scrollTop,
                    scrollPending, seen, rerenders >>
    /\ UNCHANGED footerVars

\* One frame of the browser's smooth scroll: the offset moves towards the
\* target and a 'scroll' event is queued.
AnimStep(y) ==
    /\ animating
    /\ \/ ScrollTarget <= y /\ y < scrollTop
       \/ scrollTop < y /\ y <= ScrollTarget
    /\ scrollTop' = y
    /\ scrollPending' = TRUE
    /\ animating' = (y # ScrollTarget)
    /\ UNCHANGED << status, visible, display, head, listeners, requests,
                    clicks, seen, rerenders, inputs >>
    /\ UNCHANGED footerVars

Mount == \E i \in Inst : MountPage(i)
Unmount == \E i \in Inst : UnmountPage(i)
ParentRender == \E i \in Inst : Rerender(i)
Scroll == \E y \in Offsets : UserScroll(y)
ClickWidget == \E i \in Inst : Click(i)
Animate == \E y \in Offsets : AnimStep(y)

Next ==
    \/ Mount
    \/ Unmount
    \/ ParentRender
    \/ Scroll
    \/ DispatchScroll
    \/ ClickWidget
    \/ Animate

Spec == Init /\ [][Next]_vars

\* The same page with the user idle while a scroll is in progress: no scroll
\* input while a smooth scroll runs or a 'scroll' event is still queued.
ScrollIdle ==
    /\ ~animating
    /\ ~scrollPending
    /\ \E y \in Offsets : UserScroll(y)

NextLive ==
    \/ Mount
    \/ Unmount
    \/ ParentRender
    \/ ScrollIdle
    \/ DispatchScroll
    \/ ClickWidget
    \/ Animate

\* The browser runs a started smooth scroll to its end and dispatches every
\* queued event.
SpecLive ==
    /\ Init
    /\ [][NextLive]_vars
    /\ WF_vars(Animate)
    /\ WF_vars(DispatchScroll)

\* ------------------------------------------------------ theme.config.js
\* The system clock advances by a month.
Tick ==
    /\ clock < MaxClock
    /\ clock' = clock + 1
    /\ UNCHANGED << YEAR, footerShown, footerClock >>
    /\ UNCHANGED widgetVars

\* The module is evaluated (once: modules are cached):
\* const YEAR = new Date().getFullYear(), and the footer element is built
\* around that value.
LoadConfig ==
    /\ YEAR = Unset
    /\ YEAR' = getFullYear(clock)
    /\ UNCHANGED << clock, footerShown, footerClock >>
    /\ UNCHANGED widgetVars

\* The layout renders the configuration's footer: <time>{YEAR}</time>.
RenderFooter ==
    /\ YEAR # Unset
    /\ footerShown' = YEAR
    /\ footerClock' = clock
    /\ UNCHANGED << clock, YEAR >>
    /\ UNCHANGED widgetVars

NextFooter ==
    \/ Tick
    \/ LoadConfig
    \/ RenderFooter

SpecFooter == Init /\ [][NextFooter]_vars

\* ---------------------------------------------------------------- claims
Mounted(i) == status[i] = "mounted"
Mounts == Cardinality({i \in Inst : status[i] # "unborn"})

\* C1: after scroll events were delivered to a mounted widget, its flag is
\* true iff the offset the last event read is above 300, and false iff it is
\* at most 300 (exactly 300 gives false), whatever the flag was before.
C1_FlagFollowsLastOffset ==
    \A i \in Inst :
        (Mounted(i) /\ seen[i] # NoEvent) =>
            /\ visible[i] <=> (seen[i] > 300)
            /\ ~visible[i] <=> (seen[i] <= 300)

\* The flag went true and came back to false on an event that read exactly
\* 300 (mount, flag up, flag down: three renders, none caused by the parent).
C1_Witness ==
    \E i \in Inst :
        /\ Mounted(i)
        /\ seen[i] = 300
        /\ ~visible[i]
        /\ rerenders = 0
        /\ RenderCount(i, listeners) >= 3

\* C2: every click issues exactly one scroll request, to offset 0 with smooth
\* behaviour, and no request is issued without a click: after n clicks there
\* are exactly n requests.
C2_OneRequestPerClick ==
    /\ Len(requests) = clicks
    /\ \A k \in 1..Len(requests) :
           requests[k] = [top |-> 0, behavior |-> "smooth"]

\* Two clicks were made, with a parent re-render and scroll events between.
C2_Witness ==
    /\ clicks = 2
    /\ Len(requests) = 2
    /\ rerenders >= 1
    /\ \E i \in Inst : seen[i] # NoEvent

\* C3: the widget has registered as many scroll listeners as it was mounted
\* (one per mount, whatever scroll events and re-renders occur).
C3_OneListenerPerMount == Len(listeners) = Mounts

\* C4: the listener list never shrinks: every registered listener stays
\* registered in its place, also across an unmount, and after a second mount
\* more than one handler is registered.
C4_NeverDeregistered ==
    [][ /\ Len(listeners') >= Len(listeners)
        /\ \A k \in 1..Len(listeners) : listeners'[k] = listeners[k]
        /\ (Mounts' >= 2 => Len(listeners') >= 2) ]_vars

\* An unmounted instance's listener is still registered after a second mount.
C4_Witness ==
    /\ Mounts >= 2
    /\ \E i \in Inst :
           /\ status[i] = "unmounted"
           /\ \E k \in 1..Len(listeners) : listeners[k].owner = i

\* C5: whenever the footer is rendered, the year it shows is the year of the
\* system clock at that moment.
C5_FooterShowsCurrentYear ==
    footerShown # Unset => footerShown = getFullYear(footerClock)

\* C6: the rendered head's title, description and keywords metas equal the
\* front-matter title, description and tag, character for character.
C6_HeadVerbatim ==
    \A i \in Inst :
        head[i] # NoHead =>
            /\ head[i].metaTitle = FrontMatter.title
            /\ head[i].metaDescription = FrontMatter.description
            /\ head[i].metaKeywords = FrontMatter.tag

\* C6, amended: the description and keywords metas equal the front-matter
\* description and tag character for character; the title meta is the
\* front-matter title without its first two characters (the emoji and the
\* space after it).
C6_HeadVerbatimAmended ==
    \A i \in Inst :
        head[i] # NoHead =>
            /\ head[i].metaTitle =
                   SubSeq(FrontMatter.title, 3, Len(FrontMatter.title))
            /\ FrontMatter.title[1] = "U+1F4CD"
            /\ FrontMatter.title[2] = " "
            /\ head[i].metaDescription = FrontMatter.description
            /\ head[i].metaKeywords = FrontMatter.tag

\* A page view has rendered its head.
C6_Witness ==
    \E i \in Inst : Mounted(i) /\ head[i] # NoHead /\ Len(head[i].metaTitle) > 0

\* C7: the flag is false at mount; the rendered display is 'inline' exactly
\* when the flag is true and 'none' otherwise; and a widget rendered with
\* 'none' (or just mounted) stays at 'none' on every step that is not a
\* scroll event reading an offset above 300.
C7_HiddenUntilScrolledPast ==
    [][ \A i \in Inst :
            status'[i] = "mounted" =>
                /\ display'[i] = (IF visible'[i] THEN "inline" ELSE "none")
                /\ (status[i] # "mounted" => ~visible'[i])
                /\ ( /\ (status[i] # "mounted" \/ display[i] = "none")
                     /\ ~(scrollPending /\ ~scrollPending' /\ scrollTop > 300)
                     => display'[i] = "none" ) ]_vars

\* A widget mounted while the page was scrolled past the threshold, still
\* hidden because no scroll event has reached it.
C7_Witness ==
    \E i \in Inst :
        /\ Mounted(i)
        /\ scrollTop > 300
        /\ seen[i] = NoEvent
        /\ ~visible[i]
        /\ display[i] = "none"

\* C8: once a click has started a smooth scroll, and the user scrolls no
\* further, the offset eventually is 0 and every mounted widget is hidden.
C8_ClickReturnsToTop ==
    animating ~>
        ( /\ scrollTop = 0
          /\ \A i \in Inst :
                 Mounted(i) => (~visible[i] /\ display[i] = "none") )

\* After a click the page is back at the top, and a widget that had been
\* shown (mount, flag up, flag down) is hidden again.
C8_Witness ==
    /\ clicks >= 1
    /\ scrollTop = 0
    /\ ~scrollPending
    /\ ~animating
    /\ \E i \in Inst :
           /\ Mounted(i)
           /\ display[i] = "none"
           /\ RenderCount(i, listeners) >= 3

\* C9: when a scroll event runs all the registered listeners, the flag of each
\* mounted widget afterwards is what one listener alone would have produced
\* from the current offset, and all mounted widgets agree.  (One page view
\* is mounted at a time, so the listeners that duplicate are those of earlier
\* renders and earlier page views.)
C9_DuplicatesHarmless ==
    [][ (scrollPending /\ ~scrollPending') =>
            \A i \in Inst :
                Mounted(i) =>
                    /\ visible'[i] =
                         RunListeners(<< [owner |-> i, render |-> 1] >>,
                                      visible)[i]
                    /\ \A j \in Inst : Mounted(j) => visible'[j] = visible'[i]
      ]_vars

\* A shown widget whose event ran duplicate listeners: two or more of its own
\* renders and one left behind by an earlier, unmounted page view.
C9_Witness ==
    \E i \in Inst :
        /\ Mounted(i)
        /\ visible[i]
        /\ seen[i] > 300
        /\ RenderCount(i, listeners) >= 2
        /\ \E j \in Inst :
               status[j] = "unmounted" /\ RenderCount(j, listeners) >= 1

=============================================================================
